---- MODULE Spec2Model ----
(***************************************************************************)
(* Model of rar_telegram_bot (src/main.py): a Telegram bot that scrapes    *)
(* the Rock am Ring lineup, caches it in the file `latest`, keeps one file *)
(* data/bands_<chat id> per subscriber and reports newly announced bands.  *)
(*                                                                         *)
(* Text is modelled as a sequence of characters (one-character strings;    *)
(* a longer string stands for a run of ordinary characters that holds no   *)
(* delimiter).  Files are modelled by their text, so that str(band) and    *)
(* Band.from_line are computed on characters as the code computes them.    *)
(***************************************************************************)
EXTENDS Integers, Sequences, FiniteSets, TLC

(***************************************************************************)
(* Characters and text helpers                                             *)
(***************************************************************************)
NL == "\n"

Whitespace == {NL, " "}

SetMin(S) == CHOOSE x \in S : \A y \in S : x <= y

\* str.strip(): drop leading and trailing whitespace.
Strip(s) ==
    LET keep == {i \in 1..Len(s) : s[i] \notin Whitespace}
    IN  IF keep = {} THEN <<>>
        ELSE SubSeq(s, SetMin(keep), CHOOSE x \in keep : \A y \in keep : y <= x)

\* "\n".join(parts)
RECURSIVE Join(_)
Join(parts) ==
    IF parts = <<>> THEN <<>>
    ELSE IF Len(parts) = 1 THEN parts[1]
    ELSE parts[1] \o <<NL>> \o Join(Tail(parts))

\* fd.readlines(): the text cut after every newline (the newline kept).
RECURSIVE ReadLines(_)
ReadLines(text) ==
    IF text = <<>> THEN <<>>
    ELSE LET nls == {i \in 1..Len(text) : text[i] = NL}
         IN  IF nls = {} THEN <<text>>
             ELSE <<SubSeq(text, 1, SetMin(nls))>>
                      \o ReadLines(SubSeq(text, SetMin(nls) + 1, Len(text)))

\* set(list)
Range(s) == {s[i] : i \in 1..Len(s)}

(***************************************************************************)
(* Band (src/main.py:41-69)                                                *)
(***************************************************************************)
Band(name, url) == [name |-> name, url |-> url]

\* The origin every scraped link is prefixed with (Band.from_soup).
Origin == <<"https://rock-am-ring.de">>

\* Band.from_soup for a lineup block with label `label` and link `href`.
FromSoup(label, href) == Band(Strip(label), Origin \o href)

\* Band.__str__
Str(band) ==
    IF band.url = <<>> THEN band.name
    ELSE <<"[">> \o band.name \o <<"]", "(">> \o band.url \o <<")">>

\* The matches of r"\[(.*?)]\((.*?)\)" that start at position i of s:
\* the positions j of the "](" that can end the name ('.' matches no newline,
\* and a ")" must follow on the same line).
NameEnds(s, i) ==
    {j \in (i + 1)..(Len(s) - 1) :
        /\ s[j] = "]"
        /\ s[j + 1] = "("
        /\ \A x \in (i + 1)..(j - 1) : s[x] # NL
        /\ \E k \in (j + 2)..Len(s) :
              /\ s[k] = ")"
              /\ \A x \in (j + 2)..(k - 1) : s[x] # NL}

UrlEnds(s, j) ==
    {k \in (j + 2)..Len(s) :
        /\ s[k] = ")"
        /\ \A x \in (j + 2)..(k - 1) : s[x] # NL}

MatchStarts(s) == {i \in 1..Len(s) : s[i] = "[" /\ NameEnds(s, i) # {}}

\* The two groups of the match of s that starts at i with its name ending
\* before j: both groups are lazy, so the url ends at the first ")".
Groups(s, i, j) ==
    Band(SubSeq(s, i + 1, j - 1), SubSeq(s, j + 2, SetMin(UrlEnds(s, j)) - 1))

\* re.findall(...)[0] on s: the leftmost match, with the shortest name.
\* No match raises IndexError (indexing the empty list).
FirstMatch(s, starts) ==
    IF starts = {} THEN [exc |-> "IndexError", band |-> Band(<<>>, <<>>)]
    ELSE [exc |-> "none",
          band |-> Groups(s, SetMin(starts), SetMin(NameEnds(s, SetMin(starts))))]

FromStripped(s) == FirstMatch(s, MatchStarts(s))

\* Band.from_line
FromLine(line) == FromStripped(Strip(line))

(***************************************************************************)
(* Wall clock: time.strftime("%H:%M:%S") and datetime.strptime             *)
(***************************************************************************)
\* Snapshot age above which read_latest returns None (seconds).
MaxAge == 3600

SecondsPerDay == 24 * 60 * 60

\* time.strftime("%H:%M:%S") at absolute time t (seconds): the time of day
\* only, as the three fields <<HH, MM, SS>>.
StrfTime(t) ==
    <<(t % SecondsPerDay) \div 3600, (t % 3600) \div 60, t % 60>>

\* datetime.strptime(line, "%H:%M:%S"): a text that is not three fields in
\* range raises ValueError; the date is always 1900-01-01, so the value is
\* the number of seconds since midnight.
StrpTime(fields) ==
    IF /\ Len(fields) = 3
       /\ fields[1] \in 0..23 /\ fields[2] \in 0..59 /\ fields[3] \in 0..59
    THEN [exc |-> "none", secs |-> fields[1] * 3600 + fields[2] * 60 + fields[3]]
    ELSE [exc |-> "ValueError", secs |-> 0]

(***************************************************************************)
(* The snapshot file `latest` (src/main.py:15-38)                          *)
(* head: its first line (the time fields), body: the text after it.        *)
(***************************************************************************)
NoLatest == [exists |-> FALSE, head |-> <<>>, body |-> <<>>]

\* One more parsed line b in front of the parsed rest, the first failure
\* propagating.
ConsParsed(b, rest) ==
    IF b.exc # "none" THEN [exc |-> b.exc, bands |-> <<>>]
    ELSE IF rest.exc # "none" THEN rest
    ELSE [exc |-> "none", bands |-> <<b.band>> \o rest.bands]

\* Band.from_line over the lines, in order.  from_line raises IndexError on
\* a line without the pattern, never ValueError.
RECURSIVE ParseLines(_)
ParseLines(lines) ==
    IF lines = <<>> THEN [exc |-> "none", bands |-> <<>>]
    ELSE ConsParsed(FromLine(lines[1]), ParseLines(Tail(lines)))

\* read_latest after the first line: delta = the clock's time of day minus
\* the file's; above MaxAge the function returns None (isNone).  Only
\* ValueError is caught around from_line.
ReadFresh(then, cur, body) ==
    IF then.exc # "none" THEN [exc |-> then.exc, isNone |-> FALSE, bands |-> <<>>]
    ELSE IF cur.secs - then.secs > MaxAge
    THEN [exc |-> "none", isNone |-> TRUE, bands |-> <<>>]
    ELSE [isNone |-> FALSE] @@ ParseLines(ReadLines(body))

\* read_latest at time t; strptime is outside every try.
ReadLatest(file, t) ==
    IF ~file.exists THEN [exc |-> "OSError", isNone |-> FALSE, bands |-> <<>>]
    ELSE ReadFresh(StrpTime(file.head), StrpTime(StrfTime(t)), file.body)

\* write_latest at time t
WriteLatest(bands, t) ==
    [exists |-> TRUE,
     head |-> StrfTime(t),
     body |-> Join([i \in 1..Len(bands) |-> Str(bands[i])])]

(***************************************************************************)
(* The lineup page and RockAmRing.get_band_items (src/main.py:178-200)     *)
(* A page is the sequence of its BandBlock divs: [label, href, whole],     *)
(* whole = the div has both the span and the BandBlock-link.               *)
(***************************************************************************)
RECURSIVE Scrape(_)
Scrape(page) ==
    IF page = <<>> THEN <<>>
    ELSE IF page[1].whole
         THEN <<FromSoup(page[1].label, page[1].href)>> \o Scrape(Tail(page))
         ELSE Scrape(Tail(page))

\* `if latest:` -- None and the empty list are both false.
Truthy(r) == r.exc = "none" /\ ~r.isNone /\ r.bands # <<>>

\* The page is fetched and the snapshot file rewritten.
Refetch(scraped, t) ==
    [exc |-> "none", bands |-> scraped, fetched |-> TRUE,
     latest |-> WriteLatest(scraped, t)]

\* get_band_items once read_latest gave r: an OSError counts as None, any
\* other exception leaves the function.
ServeOrFetch(r, file, page, t) ==
    IF r.exc \notin {"none", "OSError"}
    THEN [exc |-> r.exc, bands |-> <<>>, fetched |-> FALSE, latest |-> file]
    ELSE IF Truthy(r)
    THEN [exc |-> "none", bands |-> r.bands, fetched |-> FALSE, latest |-> file]
    ELSE Refetch(Scrape(page), t)

\* get_band_items at time t with the live page `page`.
\* fetched: requests.get was called; latest: the snapshot file afterwards.
GetBandItems(file, page, t) == ServeOrFetch(ReadLatest(file, t), file, page, t)

(***************************************************************************)
(* User (src/main.py:121-142): the file data/bands_<id>                    *)
(***************************************************************************)
NoFile == [exists |-> FALSE, text |-> <<>>]

\* User.write_bands: the file is overwritten.
WriteBands(bands) ==
    [exists |-> TRUE, text |-> Join([i \in 1..Len(bands) |-> Str(bands[i])])]

\* User.get_old_bands: OSError gives [], any other failure propagates.
GetOldBands(file) ==
    IF ~file.exists THEN [exc |-> "none", bands |-> <<>>]
    ELSE ParseLines(ReadLines(file.text))

\* A diff that forgets the known set.
DifferenceIgnoresOld(bands, old) == [exc |-> old.exc, new |-> Range(bands)]

\* set(bands).difference(old_bands)
Difference(bands, old) == [exc |-> old.exc, new |-> Range(bands) \ Range(old.bands)]

\* User.get_new_bands
GetNewBands(bands, file) == Difference(bands, GetOldBands(file))

(***************************************************************************)
(* Users registry and the RockAmRing operations (src/main.py:146-238)      *)
(* A world w is [latest, userFile, users]: the snapshot file, the file of  *)
(* every chat id, and the in-memory registry (chat id -> registered, and   *)
(* the User.bands attribute).                                              *)
(***************************************************************************)
Uids == {7, 42}

NoUser == [reg |-> FALSE, bands |-> <<>>]

\* Users.get(uid): the entry is created on demand; then User.bands := bands.
UsersSet(users, uid, bands) == [users EXCEPT ![uid] = [reg |-> TRUE, bands |-> bands]]

\* Users.get(uid) alone (the attribute is left as it is).
UsersGet(users, uid) == [users EXCEPT ![uid].reg = TRUE]

\* What an operation gives back: the exception that left it ("none"), the
\* world afterwards, the snapshot it worked on, whether the page was fetched,
\* the diff it returned, and the chat ids whose file it wrote.
Outcome(exc, w, bands, fetched, new, wrote) ==
    [exc |-> exc, w |-> w, bands |-> bands, fetched |-> fetched, new |-> new,
     wrote |-> wrote]

\* A write_bands whose file name leaves the chat id out: one file for all.
WrittenShared(w, uid, g, new) ==
    Outcome("none",
            [latest |-> g.latest,
             userFile |-> [u \in Uids |-> WriteBands(g.bands)],
             users |-> UsersSet(w.users, uid, g.bands)],
            g.bands, g.fetched, new, {uid})

\* user.write_bands(bands) for the user of uid, after get_band_items gave g.
Written(w, uid, g, new) ==
    Outcome("none",
            [latest |-> g.latest,
             userFile |-> [w.userFile EXCEPT ![uid] = WriteBands(g.bands)],
             users |-> UsersSet(w.users, uid, g.bands)],
            g.bands, g.fetched, new, {uid})

\* get_bands once get_band_items gave g.
GetBandsFrom(w, uid, g) ==
    IF g.exc # "none" THEN Outcome(g.exc, w, <<>>, FALSE, {}, {})
    ELSE Written(w, uid, g, {})

\* RockAmRing.get_bands(uid)
GetBands(w, uid, page, t) == GetBandsFrom(w, uid, GetBandItems(w.latest, page, t))

\* get_new once get_new_bands gave d: a failure there leaves the snapshot
\* file written and the user registered, and nothing else.
GetNewDiffed(w, uid, g, d) ==
    IF d.exc # "none"
    THEN Outcome(d.exc, [w EXCEPT !.latest = g.latest, !.users = UsersGet(w.users, uid)],
                 g.bands, g.fetched, {}, {})
    ELSE Written(w, uid, g, d.new)

\* get_new once get_band_items gave g.
GetNewFrom(w, uid, g) ==
    IF g.exc # "none" THEN Outcome(g.exc, w, <<>>, FALSE, {}, {})
    ELSE GetNewDiffed(w, uid, g, GetNewBands(g.bands, w.userFile[uid]))

\* RockAmRing.get_new(uid)
GetNew(w, uid, page, t) == GetNewFrom(w, uid, GetBandItems(w.latest, page, t))

\* A start that registers the user and leaves its file as it is.
StartKeepsFile(w, args) ==
    IF Len(args) # 1 THEN Outcome("TypeError", w, <<>>, FALSE, {}, {})
    ELSE Outcome("none", [w EXCEPT !.users = UsersSet(w.users, args[1], <<>>)],
                 <<>>, FALSE, {}, {args[1]})

\* RockAmRing.start(update), called with the positional arguments `args`
\* (the chat id of the update stands for the update): a call without the
\* update raises TypeError before the body runs.
Start(w, args) ==
    IF Len(args) # 1 THEN Outcome("TypeError", w, <<>>, FALSE, {}, {})
    ELSE Outcome("none",
                 [w EXCEPT !.userFile[args[1]] = WriteBands(<<>>),
                           !.users = UsersSet(w.users, args[1], <<>>)],
                 <<>>, FALSE, {}, {args[1]})

\* What the "start" command handler passes: lambda b, u: b.start()
StartHandlerArgs(uid) == <<>>

\* RockAmRing.send_bands(uid, bands): one hand-over to Message.send_bands,
\* recorded with the collection it was given (a list for `bands`, a set for
\* the diff).
SendList(uid, bands) == [chat |-> uid, isSet |-> FALSE, list |-> bands, set |-> {}]
SendSet(uid, new) == [chat |-> uid, isSet |-> TRUE, list |-> <<>>, set |-> new]

(***************************************************************************)
(* sched_new (src/main.py:242-255)                                         *)
(***************************************************************************)
DataName == <<"d", "a", "t", "a">>
LatestName == <<"l", "a", "t", "e", "s", "t">>
SecretName == <<"s", "e", "c", "r", "e", "t", ".", "j", "s", "o", "n">>
MainName == <<"m", "a", "i", "n", ".", "p", "y">>

\* The literal of the pattern r"data/bands_(.*)".
BandsFilePattern == <<"d", "a", "t", "a", "/", "b", "a", "n", "d", "s", "_">>

\* os.listdir("."): the names of the entries of the working directory (in
\* an order the file system chooses; one order is modelled).  The subscriber
\* files live inside the directory `data`, which is one entry.
ListDir(w) ==
    <<DataName>> \o (IF w.latest.exists THEN <<LatestName>> ELSE <<>>)
        \o <<MainName, SecretName>>

\* The places of the literal lit in name.
Occurrences(lit, name) ==
    {i \in 1..(Len(name) - Len(lit) + 1) : SubSeq(name, i, i + Len(lit) - 1) = lit}

\* The group captured at the first of the places `at`.
Captured(lit, name, at) ==
    IF at = {} THEN <<>> ELSE <<SubSeq(name, SetMin(at) + Len(lit), Len(name))>>

\* re.findall(r"data/bands_(.*)", name): only the first match is used, and
\* names hold no newline.
FindBandsId(name) ==
    Captured(BandsFilePattern, name, Occurrences(BandsFilePattern, name))

Digits == <<"0", "1", "2", "3", "4", "5", "6", "7", "8", "9">>

DigitVal(c) == (CHOOSE i \in 1..10 : Digits[i] = c) - 1

RECURSIVE Decimal(_)
Decimal(ds) ==
    IF ds = <<>> THEN 0
    ELSE 10 * Decimal(SubSeq(ds, 1, Len(ds) - 1)) + DigitVal(ds[Len(ds)])

\* int() of the stripped text s.
IntOfStripped(s, signed, ds) ==
    IF ds = <<>> \/ \E i \in 1..Len(ds) : ds[i] \notin Range(Digits)
    THEN [exc |-> "ValueError", val |-> 0]
    ELSE [exc |-> "none",
          val |-> IF signed /\ s[1] = "-" THEN 0 - Decimal(ds) ELSE Decimal(ds)]

Signed(s) == s # <<>> /\ s[1] \in {"-", "+"}

Unsigned(s) == IF Signed(s) THEN Tail(s) ELSE s

IntOfText(s) == IntOfStripped(s, Signed(s), Unsigned(s))

\* int(text): an optional sign and at least one digit, else ValueError.
IntOf(text) == IntOfText(Strip(text))

\* What one pass of the loop body did.
Pass(exc, w, sent, wrote, fetched) ==
    [exc |-> exc, w |-> w, sent |-> sent, wrote |-> wrote, fetched |-> fetched]

\* The body after rar.get_new(uid) gave r: an IndexError from inside it is
\* caught like the one of the missing match; a non-empty diff is sent.
Diffed(uid, r) ==
    Pass(IF r.exc = "IndexError" THEN "none" ELSE r.exc, r.w,
         IF r.exc = "none" /\ r.new # {} THEN <<SendSet(uid, r.new)>> ELSE <<>>,
         r.wrote, r.fetched)

\* The body after int(uid) gave n: a ValueError is not caught.
Converted(n, w, page, t) ==
    IF n.exc # "none" THEN Pass(n.exc, w, <<>>, {}, FALSE)
    ELSE Diffed(n.val, GetNew(w, n.val, page, t))

\* The loop body for a name whose matches are m: no match (IndexError,
\* caught) and an empty group (`if uid:`) do nothing.
Body(m, w, page, t) ==
    IF m = <<>> \/ m[1] = <<>> THEN Pass("none", w, <<>>, {}, FALSE)
    ELSE Converted(IntOf(m[1]), w, page, t)

\* A pass followed by the rest of the loop.
Then(step, rest) ==
    Pass(rest.exc, rest.w, step.sent \o rest.sent, step.wrote \cup rest.wrote,
         step.fetched \/ rest.fetched)

\* The loop of sched_new over `names` (the listing, in its order), threading
\* the world through the passes; an exception leaves the loop.
RECURSIVE SchedLoopFrom(_, _, _, _)
SchedLoopFrom(step, names, page, t) ==
    IF step.exc # "none" \/ names = <<>> THEN step
    ELSE Then(step, SchedLoopFrom(Body(FindBandsId(names[1]), step.w, page, t),
                                  Tail(names), page, t))

SchedLoop(names, w, page, t) ==
    SchedLoopFrom(Pass("none", w, <<>>, {}, FALSE), names, page, t)

\* The delay schedule() arms the timer with (seconds).
Interval == 3600

(***************************************************************************)
(* Message._split (src/main.py:78-96)                                      *)
(* A text of the transport is a sequence of runs [ch, n]: n times the      *)
(* character ch.  Its length is the sum of the runs.                       *)
(***************************************************************************)
\* max_length
MaxLength == 4096

Chunk(ch, n) == <<[ch |-> ch, n |-> n]>>

\* len(text)
RECURSIVE TextLen(_)
TextLen(text) == IF text = <<>> THEN 0 ELSE text[1].n + TextLen(Tail(text))

\* A join with its operands swapped: separator.join([item, current])
JoinTwoSwapped(current, item) == item \o Chunk(NL, 1) \o current

\* separator.join([current, item])
JoinTwo(current, item) == current \o Chunk(NL, 1) \o item

\* A loop without the append that follows it: the open chunk is lost.
RECURSIVE SplitLoopNoTail(_, _, _)
SplitLoopNoTail(items, messages, current) ==
    IF items = <<>> THEN messages
    ELSE IF TextLen(current) + TextLen(items[1]) > MaxLength
         THEN SplitLoopNoTail(Tail(items), Append(messages, current),
                              JoinTwo(<<>>, items[1]))
         ELSE SplitLoopNoTail(Tail(items), messages, JoinTwo(current, items[1]))

\* The loop of _split over the items left, with the chunks closed so far
\* and the chunk being filled; the last statement appends the open chunk.
RECURSIVE SplitLoop(_, _, _)
SplitLoop(items, messages, current) ==
    IF items = <<>> THEN Append(messages, current)
    ELSE IF TextLen(current) + TextLen(items[1]) > MaxLength
         THEN SplitLoop(Tail(items), Append(messages, current), JoinTwo(<<>>, items[1]))
         ELSE SplitLoop(Tail(items), messages, JoinTwo(current, items[1]))

\* Message._split(content) of a Message whose own content is `own` (None
\* and the empty list are both <<>>).
Split(content, own) ==
    IF content = <<>> /\ own = <<>> THEN <<>>
    ELSE SplitLoop(content, <<>>, <<>>)

(***************************************************************************)
(* Sending: RockAmRing.send_bands, Message.send_bands and Message.send     *)
(* (src/main.py:98-117, 202-205)                                           *)
(***************************************************************************)
\* The characters of the model in the order of their code points, which is
\* the order Python compares strings by.
CodePoints == <<NL, " ", "(", ")", "/a", "/t", "A", "T", "[", "]">>

Ord(c) == CHOOSE i \in 1..Len(CodePoints) : CodePoints[i] = c

\* a <= b for two strings
RECURSIVE StrLeq(_, _)
StrLeq(a, b) ==
    IF a = <<>> THEN TRUE
    ELSE IF b = <<>> THEN FALSE
    ELSE IF a[1] # b[1] THEN Ord(a[1]) < Ord(b[1])
    ELSE StrLeq(Tail(a), Tail(b))

\* list(bands) of a set: its elements in some order.
ListOf(set) ==
    CHOOSE l \in [1..Cardinality(set) -> set] : Range(l) = set

\* One step of the stable sort: b put behind the sorted list l, before the
\* first element whose name is greater.
InsertByName(l, b) ==
    LET after == {i \in 1..Len(l) : ~StrLeq(l[i].name, b.name)}
    IN  IF after = {} THEN Append(l, b)
        ELSE SubSeq(l, 1, SetMin(after) - 1) \o <<b>>
                 \o SubSeq(l, SetMin(after), Len(l))

\* bands.sort(key=lambda x: x.name)
RECURSIVE SortByName(_)
SortByName(l) ==
    IF l = <<>> THEN <<>>
    ELSE InsertByName(SortByName(SubSeq(l, 1, Len(l) - 1)), l[Len(l)])

\* A string as a text of the transport: every character a run of its length.
AsText(chars) == [i \in 1..Len(chars) |-> [ch |-> chars[i], n |-> Len(chars[i])]]

\* The fixed reply of Message.send_bands to an empty collection.
NoNews == <<"Keine neuen Announcements.">>

\* The bot.send_message calls Message.send makes for the chunks `messages`:
\* every chunk but the first has disable_notification set.
SendMessages(uid, messages, markdown) ==
    [i \in 1..Len(messages) |->
        [chat |-> uid, text |-> messages[i], markdown |-> markdown, silent |-> i # 1]]

\* Message(uid, bot).send(content, parse_mode=...): the Message has no
\* content of its own.
Send(uid, content, markdown) == SendMessages(uid, Split(content, <<>>), markdown)

\* Message.send_bands(bands) for the sorted list `bands`
MessageSendBands(uid, bands) ==
    IF bands # <<>>
    THEN Send(uid, [i \in 1..Len(bands) |-> AsText(Str(bands[i]))], TRUE)
    ELSE Send(uid, <<AsText(NoNews)>>, FALSE)

\* RockAmRing.send_bands for one hand-over (SendList or SendSet).
SendBands(h) ==
    MessageSendBands(h.chat, SortByName(IF h.isSet THEN ListOf(h.set) ELSE h.list))

\* The send_message calls of the hand-overs `sent`, in order.
RECURSIVE Calls(_)
Calls(sent) ==
    IF sent = <<>> THEN <<>> ELSE SendBands(sent[1]) \o Calls(Tail(sent))

(***************************************************************************)
(* Environment: the lineup page and the clock                              *)
(***************************************************************************)
\* The blocks the lineup page can show.  The second band's link holds a
\* closing parenthesis.
BlockA == [label |-> <<"A">>, href |-> <<"/a">>, whole |-> TRUE]
BlockT == [label |-> <<"T">>, href |-> <<"/t", ")">>, whole |-> TRUE]

Pages == {<<>>, <<BlockA>>, <<BlockA, BlockT>>}

\* The process starts at 22:30:00; the clock then moves in these steps,
\* none shorter than the timer's delay.
StartTime == 22 * 3600 + 30 * 60

TickSteps == {Interval, Interval + 1, SecondsPerDay}

\* How many clock steps a behaviour takes.
MaxTicks == 2

\* A first line of `latest` that is no time of day: nothing at all (the file
\* was truncated), or other text.
BadHeads == {<<>>, <<99>>}

(***************************************************************************)
(* State                                                                   *)
(***************************************************************************)
VARIABLES
    now,        \* the clock (seconds)
    ticks,      \* clock steps taken
    page,       \* the live lineup page
    latest,     \* the file `latest`
    userFile,   \* chat id -> the file data/bands_<id>
    users,      \* RockAmRing.users
    timer,      \* the threading.Timer of schedule(): "armed", "due" or "none"
    last,       \* the handler run that led to this state, if one did
    fetchedAt,  \* when write_latest last wrote `latest` (-1: never)
    diffed,     \* the chat whose get_new was the last run, the page unchanged since (0: none)
    seen,       \* chat id -> every band its known set has held since its reset
    away,       \* chat id -> known bands that left the page since its last diff
    fresh,      \* chat id -> reset with no diff since, and the known set the reset dropped
    tracking,   \* whether seen and away are recorded (fixed from the start)
    splitIn,    \* Message._split: the content given
    splitOut,   \* Message._split: the chunks returned
    band,       \* Band.from_line(str(band)): the Band given
    parsed,     \* Band.from_line(str(band)): what came back
    fileText,   \* a persisted file read on its own: its lines
    readOut,    \* what read_latest / get_old_bands made of fileText
    transport,  \* Bot.send_message: the calls made, in order
    inNew,      \* the command handler inside get_new, between its statements
    overlap     \* the timer callback that ran while a handler was inside get_new

vars == <<now, ticks, page, latest, userFile, users, timer, last, fetchedAt,
          diffed, seen, away, fresh, tracking, splitIn, splitOut, band, parsed,
          fileText, readOut, transport, inNew, overlap>>

\* What the program's own state is made of: left alone by the functions run
\* on their own.
programVars == <<now, ticks, page, latest, userFile, users, timer, last,
                 fetchedAt, diffed, seen, away, fresh, tracking>>

\* The variables of the functions checked on their own, and of the handler
\* that runs get_new statement by statement.
pureVars == <<band, parsed, fileText, readOut, transport>>

raceVars == <<inNew, overlap>>

World == [latest |-> latest, userFile |-> userFile, users |-> users]

\* The known set a subscriber file reads back as (get_old_bands).
Known(file) == Range(GetOldBands(file).bands)

NotFresh == [reset |-> FALSE, dropped |-> {}]

NoSplit == [done |-> FALSE, chunks |-> <<>>]

\* Nothing parsed, nothing read, no handler inside get_new.
NoParse == [done |-> FALSE, exc |-> "none", band |-> Band(<<>>, <<>>)]

NoRead == [done |-> FALSE, by |-> "none", exc |-> "none", isNone |-> FALSE, bands |-> <<>>]

Idle == [at |-> "idle", uid |-> 0, bands |-> <<>>, fetched |-> FALSE, new |-> {}]

NoOverlap == [uid |-> 0, had |-> FALSE, wrote |-> {}]

NoRun ==
    [op |-> "none", uid |-> 0, exc |-> "none", bands |-> <<>>, fetched |-> FALSE,
     new |-> {}, old |-> {}, sent |-> <<>>, pre |-> NoLatest, age |-> -1,
     again |-> FALSE, wasFresh |-> NotFresh, wasSeen |-> {}, back |-> {}, due |-> {},
     wrote |-> {}]

InitProgram ==
    /\ now = StartTime
    /\ ticks = 0
    /\ page \in Pages
    /\ latest = NoLatest
    /\ userFile = [u \in Uids |-> NoFile]
    /\ users = [u \in Uids |-> NoUser]
    /\ timer = "armed"
    /\ last = NoRun
    /\ fetchedAt = -1
    /\ diffed = 0
    /\ seen = [u \in Uids |-> {}]
    /\ away = [u \in Uids |-> {}]
    /\ fresh = [u \in Uids |-> NotFresh]
    /\ transport = <<>>
    /\ inNew = Idle
    /\ overlap = NoOverlap

\* No function is run on its own.
NothingParsed ==
    /\ band = Band(<<>>, <<>>)
    /\ parsed = NoParse
    /\ fileText = <<>>
    /\ readOut = NoRead

Init ==
    /\ InitProgram
    /\ tracking = FALSE
    /\ splitIn = <<>>
    /\ splitOut = NoSplit
    /\ NothingParsed

(***************************************************************************)
(* Environment steps                                                       *)
(***************************************************************************)
Tick(d) ==
    /\ ticks < MaxTicks
    /\ now' = now + d
    /\ ticks' = ticks + 1
    /\ timer' = IF timer = "armed" /\ d >= Interval THEN "due" ELSE timer
    /\ last' = NoRun
    /\ UNCHANGED <<page, latest, userFile, users, fetchedAt, diffed, seen,
                   away, fresh, tracking, splitIn, splitOut, pureVars, raceVars>>

\* The festival edits its lineup page.
SiteChange(p) ==
    /\ p # page
    /\ page' = p
    /\ away' = [u \in Uids |->
                   IF tracking THEN away[u] \cup (Known(userFile[u]) \ Range(Scrape(p)))
                   ELSE away[u]]
    /\ diffed' = 0
    /\ last' = NoRun
    /\ UNCHANGED <<now, ticks, latest, userFile, users, timer, fetchedAt,
                   seen, fresh, tracking, splitIn, splitOut, pureVars, raceVars>>

\* The file `latest` is damaged from outside the handlers (the process was
\* killed inside write_latest after open(..., "w+"), or the file was edited).
DamageLatest(h) ==
    /\ latest.exists
    /\ latest.head # h
    /\ latest' = [exists |-> TRUE, head |-> h, body |-> <<>>]
    /\ last' = NoRun
    /\ UNCHANGED <<now, ticks, page, userFile, users, timer, fetchedAt, diffed,
                   seen, away, fresh, tracking, splitIn, splitOut, pureVars, raceVars>>

(***************************************************************************)
(* Handlers                                                                *)
(***************************************************************************)
\* The record of a handler run for chat uid with outcome r: what it found
\* (the snapshot file and its true age, the known set, the history of the
\* chat) and what it did.
Run(op, uid, r, sent) ==
    [op |-> op, uid |-> uid, exc |-> r.exc, bands |-> r.bands,
     fetched |-> r.fetched, new |-> r.new,
     old |-> Known(userFile[uid]),
     sent |-> sent,
     pre |-> latest,
     age |-> IF fetchedAt < 0 THEN -1 ELSE now - fetchedAt,
     again |-> diffed = uid,
     wasFresh |-> fresh[uid],
     wasSeen |-> seen[uid],
     back |-> away[uid] \cap Range(r.bands),
     due |-> {},
     wrote |-> r.wrote]

\* The state after a run with outcome r; reset: the chat ids whose known set
\* the run reset.
Effect(r, reset) ==
    /\ latest' = r.w.latest
    /\ userFile' = r.w.userFile
    /\ users' = r.w.users
    /\ fetchedAt' = IF r.fetched THEN now ELSE fetchedAt
    /\ seen' = [u \in Uids |->
                   IF u \in reset THEN {}
                   ELSE IF tracking /\ u \in r.wrote
                   THEN seen[u] \cup Known(r.w.userFile[u])
                   ELSE seen[u]]
    /\ away' = [u \in Uids |-> IF u \in r.wrote THEN {} ELSE away[u]]
    /\ fresh' = [u \in Uids |->
                    IF u \in reset THEN [reset |-> TRUE, dropped |-> Known(userFile[u])]
                    ELSE IF u \in r.wrote THEN NotFresh
                    ELSE fresh[u]]
    /\ UNCHANGED <<now, ticks, page, tracking, splitIn, splitOut, pureVars>>

\* A command handler ran for chat uid with outcome r; the dispatcher
\* catches what it raises.
Handled(op, uid, r, sent, reset) ==
    /\ Effect(r, reset)
    /\ last' = Run(op, uid, r, IF r.exc = "none" THEN sent ELSE <<>>)
    /\ diffed' = IF op = "new" /\ r.exc = "none" THEN uid ELSE 0
    /\ UNCHANGED <<timer, raceVars>>

BandsReply(uid, r) == Handled("bands", uid, r, <<SendList(uid, r.bands)>>, {})

NewReply(uid, r) == Handled("new", uid, r, <<SendSet(uid, r.new)>>, {})

Reset(op, uid, r) == Handled(op, uid, r, <<>>, r.wrote)

\* "bands" command: RockAmRing.bands
CmdBands(uid) == BandsReply(uid, GetBands(World, uid, page, now))

\* "neu" command: RockAmRing.new_bands
CmdNeu(uid) == NewReply(uid, GetNew(World, uid, page, now))

\* "start" command: the registered handler
CmdStart(uid) == Reset("start", uid, Start(World, StartHandlerArgs(uid)))

\* RockAmRing.start(update) called with an update of chat uid
CallStart(uid) == Reset("reset", uid, Start(World, <<uid>>))

\* The subscribers with a file whose diff against the snapshot g is not empty.
DueFor(g) ==
    {u \in Uids : /\ userFile[u].exists
                  /\ g.exc = "none"
                  /\ Range(g.bands) \ Known(userFile[u]) # {}}

\* The subscribers a timer firing owes a notification.
Due == DueFor(GetBandItems(latest, page, now))

\* A sched_new that returns without calling schedule(rar).
CycleNoRearm(r) ==
    /\ Effect(r, {})
    /\ last' = [NoRun EXCEPT !.op = "sched", !.exc = r.exc, !.fetched = r.fetched,
                             !.sent = r.sent, !.due = Due,
                             !.wrote = r.wrote]
    /\ diffed' = 0
    /\ timer' = "none"

\* sched_new ran its loop with outcome r.  schedule(rar) is the last
\* statement: an exception leaves no timer.
Cycle(r) ==
    /\ Effect(r, {})
    /\ last' = [NoRun EXCEPT !.op = "sched", !.exc = r.exc, !.fetched = r.fetched,
                             !.sent = r.sent, !.due = Due,
                             !.wrote = r.wrote]
    /\ diffed' = 0
    /\ timer' = IF r.exc = "none" THEN "armed" ELSE "none"

\* The timer fires, at the time it is due or later: sched_new.
SchedNew ==
    /\ timer = "due"
    /\ Cycle(SchedLoop(ListDir(World), World, page, now))
    /\ UNCHANGED raceVars

Next ==
    \/ \E d \in TickSteps : Tick(d)
    \/ \E p \in Pages : SiteChange(p)
    \/ \E h \in BadHeads : DamageLatest(h)
    \/ \E u \in Uids : CmdBands(u)
    \/ \E u \in Uids : CmdNeu(u)
    \/ \E u \in Uids : CmdStart(u)
    \/ SchedNew

Spec == Init /\ [][Next]_vars

(***************************************************************************)
(* The operations called directly: get_bands, get_new and start(update)    *)
(***************************************************************************)
NextOps ==
    \/ \E d \in TickSteps : Tick(d)
    \/ \E p \in Pages : SiteChange(p)
    \/ \E u \in Uids : CmdBands(u)
    \/ \E u \in Uids : CmdNeu(u)
    \/ \E u \in Uids : CallStart(u)

SpecOps == Init /\ [][NextOps]_vars

(***************************************************************************)
(* The operations called directly, next to the timer thread; the clock     *)
(* moves by a little more than the timer's delay.                          *)
(***************************************************************************)
NextFrame ==
    \/ Tick(Interval + 1)
    \/ \E p \in Pages : SiteChange(p)
    \/ \E u \in Uids : CmdBands(u)
    \/ \E u \in Uids : CmdNeu(u)
    \/ \E u \in Uids : CallStart(u)
    \/ SchedNew

SpecFrame == Init /\ [][NextFrame]_vars

(***************************************************************************)
(* The commands that diff, with the history of every known set recorded    *)
(***************************************************************************)
InitHistory ==
    /\ InitProgram
    /\ tracking = TRUE
    /\ splitIn = <<>>
    /\ splitOut = NoSplit
    /\ NothingParsed

NextHistory ==
    \/ \E d \in TickSteps : Tick(d)
    \/ \E p \in Pages : SiteChange(p)
    \/ \E u \in Uids : CmdBands(u)
    \/ \E u \in Uids : CmdNeu(u)

SpecHistory == InitHistory /\ [][NextHistory]_vars

(***************************************************************************)
(* The timer thread next to the "neu" command.  threading.Timer runs its   *)
(* callback once the delay is over: a due timer does fire.                 *)
(***************************************************************************)
NextTimer ==
    \/ \E d \in TickSteps : Tick(d)
    \/ \E p \in Pages : SiteChange(p)
    \/ \E u \in Uids : CmdNeu(u)
    \/ SchedNew

\* WF_vars(SchedNew) with its ENABLED written out: sched_new can run
\* exactly when the timer is due.
TimerFires == []<>(timer # "due") \/ []<><<SchedNew>>_vars

SpecTimer == Init /\ [][NextTimer]_vars /\ TimerFires

(***************************************************************************)
(* The "neu" command statement by statement, next to the timer thread:     *)
(* the dispatcher thread runs new_bands while threading.Timer runs         *)
(* sched_new on a thread of its own, and no lock is taken anywhere.        *)
(***************************************************************************)
\* The history kept for the other specifications, left alone here.
ghostVars == <<fetchedAt, diffed, seen, away, fresh, tracking>>

\* The handler leaves new_bands (by return or by exception).
Left(uid, exc, sent) ==
    /\ inNew' = Idle
    /\ last' = [NoRun EXCEPT !.op = "new", !.uid = uid, !.exc = exc,
                             !.bands = inNew.bands, !.fetched = inNew.fetched,
                             !.new = inNew.new, !.sent = sent]

\* get_band_items gave g: the first statement of get_new is done.
NeuItemsDone(uid, g) ==
    /\ latest' = g.latest
    /\ IF g.exc # "none"
       THEN Left(uid, g.exc, <<>>)
       ELSE /\ inNew' = [at |-> "items", uid |-> uid, bands |-> g.bands,
                         fetched |-> g.fetched, new |-> {}]
            /\ last' = NoRun
    /\ UNCHANGED <<now, ticks, page, userFile, users, timer, ghostVars, splitIn,
                   splitOut, pureVars, overlap>>

\* bands = self.get_band_items()
NeuItems(uid) ==
    /\ inNew.at = "idle"
    /\ NeuItemsDone(uid, GetBandItems(latest, page, now))

\* get_new_bands gave d.
NeuDiffDone(d) ==
    /\ users' = IF d.exc # "none" THEN UsersGet(users, inNew.uid)
                ELSE UsersSet(users, inNew.uid, inNew.bands)
    /\ IF d.exc # "none"
       THEN Left(inNew.uid, d.exc, <<>>)
       ELSE /\ inNew' = [inNew EXCEPT !.at = "diffed", !.new = d.new]
            /\ last' = NoRun
    /\ UNCHANGED <<now, ticks, page, latest, userFile, timer, ghostVars, splitIn,
                   splitOut, pureVars, overlap>>

\* new_bands = self.users.get(uid).get_new_bands(bands): the known set is read
NeuDiff ==
    /\ inNew.at = "items"
    /\ NeuDiffDone(GetNewBands(inNew.bands, userFile[inNew.uid]))

\* user.write_bands(bands)
NeuWrite ==
    /\ inNew.at = "diffed"
    /\ userFile' = [userFile EXCEPT ![inNew.uid] = WriteBands(inNew.bands)]
    /\ users' = UsersSet(users, inNew.uid, inNew.bands)
    /\ inNew' = [inNew EXCEPT !.at = "written"]
    /\ last' = NoRun
    /\ UNCHANGED <<now, ticks, page, latest, timer, ghostVars, splitIn, splitOut,
                   pureVars, overlap>>

\* self.send_bands(uid, bands)
NeuSend ==
    /\ inNew.at = "written"
    /\ Left(inNew.uid, "none", <<SendSet(inNew.uid, inNew.new)>>)
    /\ UNCHANGED <<now, ticks, page, latest, userFile, users, timer, ghostVars,
                   splitIn, splitOut, pureVars, overlap>>

\* sched_new on the timer thread; overlap: the chat whose get_new the
\* handler was inside (its known set read or about to be read, not yet
\* written), whether that chat had a file, and the chats the cycle ran
\* get_new for.
SchedNewMeanwhile ==
    /\ timer = "due"
    /\ Cycle(SchedLoop(ListDir(World), World, page, now))
    /\ overlap' = IF inNew.at \in {"items", "diffed"}
                  THEN [uid |-> inNew.uid,
                        had |-> userFile[inNew.uid].exists,
                        wrote |-> SchedLoop(ListDir(World), World, page, now).wrote]
                  ELSE NoOverlap
    /\ UNCHANGED inNew

NextRace ==
    \/ \E d \in TickSteps : Tick(d)
    \/ \E p \in Pages : SiteChange(p)
    \/ \E u \in Uids : NeuItems(u)
    \/ NeuDiff
    \/ NeuWrite
    \/ NeuSend
    \/ SchedNewMeanwhile

SpecRace == Init /\ [][NextRace]_vars

(***************************************************************************)
(* Message._split on its own                                               *)
(***************************************************************************)
\* The lengths of the lines handed to _split, and how many lines at most.
LineLens == {1, 2047, 2048, 4096, 4097}

MaxLines == 3

Lines == {Chunk("a", n) : n \in LineLens}

Contents == UNION {[1..k -> Lines] : k \in 0..MaxLines}

InitSplit ==
    /\ InitProgram
    /\ page = <<>>
    /\ tracking = FALSE
    /\ splitIn \in Contents
    /\ splitOut = NoSplit
    /\ NothingParsed

\* Message(uid, bot)._split(content): the Message has no content of its own.
DoSplit ==
    /\ ~splitOut.done
    /\ splitOut' = [done |-> TRUE, chunks |-> Split(splitIn, <<>>)]
    /\ UNCHANGED <<now, ticks, page, latest, userFile, users, timer, last,
                   fetchedAt, diffed, seen, away, fresh, tracking, splitIn, pureVars,
                   raceVars>>

SpecSplit == InitSplit /\ [][DoSplit]_vars

(***************************************************************************)
(* Message.send on its own                                                 *)
(***************************************************************************)
\* Message(uid, bot).send(content): the chunks of _split handed to
\* bot.send_message one by one.
DoSend(uid) ==
    /\ ~splitOut.done
    /\ splitOut' = [done |-> TRUE, chunks |-> Split(splitIn, <<>>)]
    /\ transport' = Send(uid, splitIn, FALSE)
    /\ UNCHANGED <<programVars, splitIn, band, parsed, fileText, readOut,
                   raceVars>>

NextSend == \E u \in Uids : DoSend(u)

SpecSend == InitSplit /\ [][NextSend]_vars

(***************************************************************************)
(* Band.from_line(str(band)) on its own                                    *)
(***************************************************************************)
\* The characters of the names and urls tried, and their longest length.
BandChars == {"A", "]", "(", ")"}

MaxChars == 2

Texts == UNION {[1..k -> BandChars] : k \in 0..MaxChars}

InitBand ==
    /\ InitProgram
    /\ page = <<>>
    /\ tracking = FALSE
    /\ splitIn = <<>>
    /\ splitOut = NoSplit
    /\ band \in {Band(n, u) : n \in Texts, u \in Texts}
    /\ parsed = NoParse
    /\ fileText = <<>>
    /\ readOut = NoRead

\* Band.from_line(str(band))
DoRoundTrip ==
    /\ ~parsed.done
    /\ parsed' = [done |-> TRUE] @@ FromLine(Str(band))
    /\ UNCHANGED <<programVars, splitIn, splitOut, band, fileText, readOut,
                   transport, raceVars>>

SpecBand == InitBand /\ [][DoRoundTrip]_vars

(***************************************************************************)
(* read_latest and User.get_old_bands on their own, on a file whose lines  *)
(* are well formed or not                                                  *)
(***************************************************************************)
\* The lines a file can hold: a band as written, a bare name (a band written
\* without url, or other text), a line cut short.
LineA == Str(Band(<<"A">>, Origin \o <<"/a">>))

LineB == Str(Band(<<"T">>, Origin \o <<"/t">>))

LineBare == <<"A">>

LineCut == <<"[", "A", "]", "(">>

FileLines == {LineA, LineB, LineBare, LineCut}

MaxFileLines == 3

FileTexts == {Join(ls) : ls \in UNION {[1..k -> FileLines] : k \in 0..MaxFileLines}}

InitRead ==
    /\ InitProgram
    /\ page = <<>>
    /\ tracking = FALSE
    /\ splitIn = <<>>
    /\ splitOut = NoSplit
    /\ band = Band(<<>>, <<>>)
    /\ parsed = NoParse
    /\ fileText \in FileTexts
    /\ readOut = NoRead

\* read_latest() of a snapshot file written just now with the lines fileText
DoReadLatest ==
    /\ ~readOut.done
    /\ readOut' = [done |-> TRUE, by |-> "read_latest"]
                      @@ ReadLatest([exists |-> TRUE, head |-> StrfTime(now),
                                     body |-> fileText], now)
    /\ UNCHANGED <<programVars, splitIn, splitOut, band, parsed, fileText,
                   transport, raceVars>>

\* User.get_old_bands() of a subscriber file with the lines fileText
DoGetOldBands ==
    /\ ~readOut.done
    /\ readOut' = [done |-> TRUE, by |-> "get_old_bands", isNone |-> FALSE]
                      @@ GetOldBands([exists |-> TRUE, text |-> fileText])
    /\ UNCHANGED <<programVars, splitIn, splitOut, band, parsed, fileText,
                   transport, raceVars>>

NextRead == DoReadLatest \/ DoGetOldBands

SpecRead == InitRead /\ [][NextRead]_vars

(***************************************************************************)
(* Claims                                                                  *)
(***************************************************************************)
\* The run that led to this state is a successful get_new (the "neu"
\* command) / a run that called get_band_items.
DiffRan == last.op = "new" /\ last.exc = "none"

LineupAsked == last.op \in {"bands", "new"}

\* The snapshot file the run found carried a time of day.
HadTimestamp == last.pre.exists /\ StrpTime(last.pre.head).exc = "none"

\* The run fetched the page and rewrote the snapshot file with the current
\* time and the scraped entries.
Refetched ==
    /\ last.exc = "none"
    /\ last.fetched
    /\ last.bands = Scrape(page)
    /\ latest = WriteLatest(Scrape(page), now)

\* C1: get_new(uid) returns the snapshot minus the known set persisted
\* before the call, and afterwards the known set read back by get_old_bands
\* equals the snapshot.
C1_DiffAndPersist ==
    DiffRan =>
        /\ last.new = Range(last.bands) \ last.old
        /\ Known(userFile[last.uid]) = Range(last.bands)

\* C2: a get_new that directly follows a get_new of the same subscriber,
\* the lineup page unchanged in between, returns the empty set.
C2_SecondDiffEmpty == (DiffRan /\ last.again) => last.new = {}

\* C3: after a firing of the timer, every subscriber that had a file and a
\* non-empty diff against the snapshot has been sent something and is no
\* longer behind the snapshot.
C3_CycleNotifiesDue ==
    last.op = "sched" =>
        \A u \in last.due :
            /\ \E i \in 1..Len(last.sent) : last.sent[i].chat = u
            /\ u \notin Due

\* C4: get_band_items called when the persisted snapshot was fetched more
\* than one hour ago refetches and rewrites the snapshot file.
C4_StaleRefetched ==
    (LineupAsked /\ HadTimestamp /\ last.age > MaxAge) => Refetched

\* C5: get_band_items called when a readable persisted snapshot is at most
\* one hour old returns the persisted entries without fetching, whatever
\* the entries are.
C5_FreshServed ==
    (/\ LineupAsked
     /\ HadTimestamp
     /\ last.age >= 0 /\ last.age <= MaxAge
     /\ ParseLines(ReadLines(last.pre.body)).exc = "none")
        => /\ last.exc = "none"
           /\ ~last.fetched
           /\ last.bands = ParseLines(ReadLines(last.pre.body)).bands
           /\ latest = last.pre

\* C6: after the start command of a subscriber, its persisted known set is
\* empty.
C6_StartEmptiesKnown == last.op = "start" => Known(userFile[last.uid]) = {}

\* C7: the get_new that follows a reset (write_bands([])) of the same
\* subscriber returns the whole snapshot, whenever the snapshot is not
\* empty and whatever the reset dropped.
C7_ResetThenAllNew ==
    (DiffRan /\ last.wasFresh.reset /\ last.bands # <<>>)
        => last.new = Range(last.bands)

\* C7 witness: a get_new after the reset of a known set that was not empty, against a
\* snapshot of two bands, all reported.
C7_Witness ==
    /\ DiffRan
    /\ last.wasFresh.reset
    /\ last.wasFresh.dropped # {}
    /\ Len(last.bands) = 2
    /\ last.new = Range(last.bands)

RECURSIVE SumLen(_)
SumLen(items) == IF items = <<>> THEN 0 ELSE TextLen(items[1]) + SumLen(Tail(items))

\* C9: every chunk _split produces has at most 4096 characters, and lines
\* of more than 4096 characters in total give at least 2 chunks.
C9_ChunksBounded ==
    splitOut.done =>
        /\ \A i \in 1..Len(splitOut.chunks) : TextLen(splitOut.chunks[i]) <= MaxLength
        /\ SumLen(splitIn) > MaxLength => Len(splitOut.chunks) >= 2

\* C10: get_band_items called when the snapshot file is absent, empty or
\* without a time of day in its first line does not fail: it refetches and
\* rewrites the file.
C10_CorruptIsMiss ==
    (LineupAsked /\ ~HadTimestamp) => Refetched

\* C11: for every Band with a non-empty url, Band.from_line(str(band))
\* returns the band.
C11_RoundTrip ==
    (parsed.done /\ band.url # <<>>)
        => /\ parsed.exc = "none"
           /\ parsed.band = band

\* The lines a chunk holds: its text cut at the separators, the empty
\* pieces left out.
RECURSIVE LinesOf(_, _)
LinesOf(text, line) ==
    IF text = <<>> THEN (IF line = <<>> THEN <<>> ELSE <<line>>)
    ELSE IF text[1].ch = NL
         THEN (IF line = <<>> THEN <<>> ELSE <<line>>) \o LinesOf(Tail(text), <<>>)
         ELSE LinesOf(Tail(text), Append(line, text[1]))

\* The lines of the calls, in the order sent.
RECURSIVE LinesSent(_)
LinesSent(calls) ==
    IF calls = <<>> THEN <<>>
    ELSE LinesOf(calls[1].text, <<>>) \o LinesSent(Tail(calls))

\* The lists that hold every band of the set once, names ascending.
Ascending(set) ==
    {l \in [1..Cardinality(set) -> set] :
        /\ Range(l) = set
        /\ \A i \in 1..(Len(l) - 1) : StrLeq(l[i].name, l[i + 1].name)}

\* The reply a "neu" command owes for the diff `new`.
ReplyFor(uid, new, calls) ==
    /\ calls # <<>>
    /\ \A i \in 1..Len(calls) : calls[i].chat = uid
    /\ new = {} => /\ Len(calls) = 1
                   /\ LinesSent(calls) = <<AsText(NoNews)>>
    /\ new # {} => \E l \in Ascending(new) :
                       LinesSent(calls) = [i \in 1..Len(l) |-> AsText(Str(l[i]))]

\* C12: every "neu" command is answered in the chat that sent it -- the
\* fixed text alone when the diff is empty, else the new bands and only
\* them, names ascending -- and a timer firing sends nothing for an empty
\* diff.
C12_NewAlwaysReplies ==
    /\ last.op = "new" => ReplyFor(last.uid, last.new, Calls(last.sent))
    /\ last.op = "sched" =>
           \A i \in 1..Len(last.sent) : last.sent[i].isSet /\ last.sent[i].set # {}

\* C13: no run of sched_new leaves the process without a timer, and every
\* timer that is due fires and is followed by a newly armed one.
C13_TimerRearmed ==
    /\ [](timer # "none")
    /\ (timer = "due") ~> (last.op = "sched" /\ timer = "armed")

\* C13 witness: sched_new ran while a subscriber with a file had a diff that
\* was not empty, and a timer is armed again.
C13_Witness ==
    /\ last.op = "sched"
    /\ last.due # {}
    /\ timer = "armed"

RECURSIVE WellFormed(_)
WellFormed(lines) ==
    IF lines = <<>> THEN <<>>
    ELSE IF FromLine(lines[1]).exc = "none"
         THEN <<FromLine(lines[1]).band>> \o WellFormed(Tail(lines))
         ELSE WellFormed(Tail(lines))

\* C15: read_latest and get_old_bands do not fail on a file with malformed
\* lines: they return the bands of its well-formed lines.
C15_MalformedSkipped ==
    readOut.done =>
        /\ readOut.exc = "none"
        /\ readOut.bands = WellFormed(ReadLines(fileText))

\* C16: a step of get_bands, get_new or start for chat i, and a run of
\* sched_new that processes the chats i, leaves the file and the in-memory
\* User of every other chat j as they were.
C16_OthersUntouched ==
    [][\A j \in Uids :
          (\/ last'.op \in {"bands", "new", "reset"} /\ last'.uid # j
           \/ last'.op = "sched" /\ j \notin last'.wrote)
              => /\ userFile'[j] = userFile[j]
                 /\ users'[j] = users[j]]_vars

\* C16 witness: get_new has run and written for one chat while another chat
\* had a file with a different, non-empty known set.
C16_Witness ==
    /\ DiffRan
    /\ last.new # {}
    /\ \E j \in Uids \ {last.uid} :
          /\ userFile[j].exists
          /\ Known(userFile[j]) # {}
          /\ Known(userFile[j]) # Known(userFile[last.uid])

\* C17: a run of sched_new that falls between the statements of a handler's
\* get_new for a subscriber with a file runs the diff for that subscriber
\* too, so that the two read-old / write-new sequences interleave.
C17_CycleDiffsMeanwhile ==
    (overlap.uid # 0 /\ overlap.had) => overlap.uid \in overlap.wrote

\* C18 as stated: _split returns at least one chunk for every list of
\* lines, the empty list included.
C18_AlwaysAChunk == splitOut.done => Len(splitOut.chunks) >= 1

\* C18 as amended: _split of a Message without content of its own returns
\* at least one chunk for a list that is not empty, and none for the empty
\* list.
C18_AChunkUnlessEmpty ==
    splitOut.done =>
        /\ splitIn # <<>> => Len(splitOut.chunks) >= 1
        /\ splitIn = <<>> => splitOut.chunks = <<>>

\* C18 witness: _split ran on as many lines as the model allows and
\* returned chunks.
C18_Witness ==
    /\ splitOut.done
    /\ Len(splitIn) = MaxLines
    /\ Len(splitOut.chunks) >= 1

\* C19: after a "bands" command the known set read back for the chat is
\* the snapshot the command returned, and a "neu" command of the same chat
\* that comes next reports nothing.
C19_BandsMarksAllSeen ==
    [][/\ (last'.op = "bands" /\ last'.exc = "none")
            => Known(userFile'[last'.uid]) = Range(last'.bands)
       /\ (/\ last.op = "bands" /\ last.exc = "none"
           /\ last'.op = "new" /\ last'.exc = "none"
           /\ last'.uid = last.uid)
            => last'.new = {}]_vars

\* C20: for a list of lines that is not empty, the lines of the chunks,
\* chunk after chunk, are the lines given, each once and in their order; the
\* chunks are handed to send_message in their order, and every call but the
\* first is silenced.
C20_NothingLostOrReordered ==
    (splitOut.done /\ splitIn # <<>>) =>
        /\ LinesSent(transport) = splitIn
        /\ Len(transport) = Len(splitOut.chunks)
        /\ \A i \in 1..Len(transport) :
              /\ transport[i].text = splitOut.chunks[i]
              /\ transport[i].silent = (i # 1)

\* C20 witness: three lines went out in two or more calls.
C20_Witness ==
    /\ splitOut.done
    /\ Len(splitIn) = 3
    /\ Len(transport) >= 2
    /\ \E i \in 1..Len(transport) : Len(LinesOf(transport[i].text, <<>>)) >= 2

====
